---- MODULE Spec2Model ----
(***************************************************************************)
(* State-machine model of ChunkGenerator                                   *)
(* (src/addons/terrain_generator/src/chunkGen/chunk_generator.cpp).        *)
(*                                                                         *)
(* Number representation.  Colour channels and noise samples are floats in *)
(* [0,1]; the model keeps them in tenths (0..10).  A height returned by    *)
(* compute_height is kept in twentieths (0..20): the interpolation weight  *)
(* is a multiple of 1/2 for samples in tenths.  Pixels written to an       *)
(* 8-bit image are the bytes the image format stores.  World positions of  *)
(* mesh vertices are rationals num/den.                                    *)
(***************************************************************************)
EXTENDS Integers, Sequences, FiniteSets, TLC

\* ------------------------------------------------------------------------
\* Bounds of the model (not program constants)
\* ------------------------------------------------------------------------
\* largest chunk size for which the level of detail is tabulated
MaxLodSize == 20
\* largest chunk size for which a mesh is built on its own
MaxMeshSize == 6
\* largest magnitude of a wrapped world coordinate
MaxWorld == 9
\* largest side of an image a wrapped coordinate indexes
MaxImageSize == 5

\* ------------------------------------------------------------------------
\* Program constants
\* ------------------------------------------------------------------------
\* create_noise_texture(noise, 256, 256, true)
NoiseWidth == 256
NoiseHeight == 256
\* float m_heightMultiplier = 20.0f
m_heightMultiplier == 20

BiomeKeys == {"corral", "sand", "rock", "kelp", "lavarock"}
BlendKey == "blend"
\* the keys cache_resources schedules a poll for
NoiseKeys == BiomeKeys \cup {BlendKey}

NoImage == "NoImage"
\* a null Ref<ImageTexture>; a texture is [valid |-> TRUE, px |-> its pixels]
NoTexture == [valid |-> FALSE]
NullNode == "null"
MaskNode == "BiomeMask"

\* ------------------------------------------------------------------------
\* C++ integer and float helpers
\* ------------------------------------------------------------------------
Abs(a) == IF a < 0 THEN -a ELSE a

\* C++ a / b on ints (b # 0): the quotient truncated toward zero
CDiv(a, b) ==
    LET q == Abs(a) \div Abs(b)
    IN  IF (a < 0) = (b < 0) THEN q ELSE -q

\* C++ a % b on ints (b # 0): the remainder has the sign of the dividend
CRem(a, b) == a - b * CDiv(a, b)

\* (int)f for the rational f = num/den (den # 0): truncation toward zero
TruncToInt(num, den) == CDiv(num, den)

\* Math::clamp(v, lo, hi)
Clamp(v, lo, hi) == IF v < lo THEN lo ELSE IF v > hi THEN hi ELSE v

\* Image::set_pixel into an 8-bit channel: a value v/den of [0,1] is stored
\* as the byte round(255 * v / den), clamped to 0..255
ToByte(v, den) == Clamp((2 * 255 * v + den) \div (2 * den), 0, 255)

\* ------------------------------------------------------------------------
\* Colours (channels in tenths)
\* ------------------------------------------------------------------------
Color(r, g, b, a) == [r |-> r, g |-> g, b |-> b, a |-> a]
White == Color(10, 10, 10, 10)
Grey == Color(8, 8, 8, 10)
Red == Color(10, 0, 0, 10)
Black == Color(0, 0, 0, 10)

\* is_boss_area: color == Color(1, 0, 0, 1)
is_boss_area(color) == color = Color(10, 0, 0, 10)

\* ------------------------------------------------------------------------
\* Noise images.  An image is named after the NoiseTexture2D that baked it;
\* its red channel at pixel (sx, sy) is a fixed pattern standing for the
\* asset's content.
\* ------------------------------------------------------------------------
KeyIndex(k) ==
    CASE k = "corral" -> 1
      [] k = "sand" -> 2
      [] k = "rock" -> 3
      [] k = "kelp" -> 4
      [] k = "lavarock" -> 5
      [] OTHER -> 0

\* Image::get_pixel(sx, sy).r of the image baked by texture k
get_pixel_r(img, sx, sy) ==
    IF img = BlendKey
    THEN (3 + 2 * sx + sy) % 11
    ELSE (3 * KeyIndex(img) + sx + 4 * sy) % 11

\* FastNoiseLiteWrapper::get_boss_noise(x, y): the boss noise field, a fixed
\* pattern (tenths) standing for the generator's output
get_boss_noise(x, y) == (7 + x + 2 * y) % 11

VARIABLES
    m_chunkSize,               \* int m_chunkSize
    initialized,               \* initialize() has been called
    readyDone,                 \* the engine has called _ready()
    maskState,                 \* the BiomeMask autoload: absent, notready, ready
    debug_enabled,             \* the build defines DEBUG_ENABLED
    biome_mask_node,           \* Node *biome_mask_node
    m_biomeNoises,             \* keys of HashMap m_biomeNoises (valid textures)
    m_noiseBlend,              \* m_noiseBlend.is_valid()
    texImage,                  \* NoiseTexture2D::get_image() of each noise texture
    m_cachedBiomeNoiseImages,  \* HashMap<String, Ref<Image>>
    m_blendNoiseImage,         \* Ref<Image> m_blendNoiseImage
    timers,                    \* the live polling Timers, by the key bound to them
    m_biomeBlendTextureCache,  \* HashMap<Vector2i, Ref<ImageTexture>>
    m_heightmapTextureCache,   \* HashMap<Vector2i, Ref<ImageTexture>>
    faulted,                   \* the process has faulted
    last                       \* the pending query, or the last operation and what it returned

vars == <<m_chunkSize, initialized, readyDone, maskState, debug_enabled,
          biome_mask_node,
          m_biomeNoises, m_noiseBlend, texImage, m_cachedBiomeNoiseImages,
          m_blendNoiseImage, timers, m_biomeBlendTextureCache,
          m_heightmapTextureCache, faulted, last>>

noiseVars == <<m_biomeNoises, m_noiseBlend, texImage,
               m_cachedBiomeNoiseImages, m_blendNoiseImage>>
chunkVars == <<m_biomeBlendTextureCache, m_heightmapTextureCache>>
sceneVars == <<initialized, readyDone, maskState, debug_enabled,
               biome_mask_node>>
\* every variable but last
stateVars == <<m_chunkSize, sceneVars, noiseVars, timers, chunkVars, faulted>>

\* A function with one more (or one replaced) entry
\* a map that keeps the newest entry only
PutAlone(f, k, v) == [x \in {k} |-> v]

Put(f, k, v) == [x \in DOMAIN f \cup {k} |-> IF x = k THEN v ELSE f[x]]
\* A function without the entries of the keys in ks
Erase(f, ks) == [x \in DOMAIN f \ ks |-> f[x]]
EmptyMap == [x \in {} |-> NoImage]

NoOp == [op |-> "none"]

\* ------------------------------------------------------------------------
\* Biome data (the Dictionary passed by the caller).  "colors" maps local
\* Vector2i keys to colours; "direct" holds colours stored under top-level
\* Vector2i keys (the form get_biome_color_from_data also accepts).
\* ------------------------------------------------------------------------
NoColors == [k \in {} |-> White]

BiomeData(hasColors, colors, hasWeights, direct) ==
    [hasColors |-> hasColors, colors |-> colors,
     hasWeights |-> hasWeights, direct |-> direct]

\* Dictionary() : no key at all
EmptyData == BiomeData(FALSE, NoColors, FALSE, NoColors)

LocalKeys(n) == (0 .. n - 1) \X (0 .. n - 1)

\* what generate_biome_data(cx, cy, n) builds when every position of the
\* chunk is classified as colour c
UniformData(n, c) ==
    BiomeData(TRUE, [k \in LocalKeys(n) |-> c], TRUE, NoColors)

\* what generate_biome_data builds when get_biome_weights gives every biome
\* the weight w (tenths) at every position: the "weights" dictionary holds
\* one weight map per position
WeightedData(n, c, w) ==
    [hasColors |-> TRUE, colors |-> [k \in LocalKeys(n) |-> c],
     hasWeights |-> TRUE, direct |-> NoColors,
     weights |-> [k \in LocalKeys(n) |-> [b \in BiomeKeys |-> w]]]

\* ------------------------------------------------------------------------
\* compute_height
\* ------------------------------------------------------------------------
\* a % b where b may be 0: on hardware whose integer divide does not trap,
\* a / 0 is 0 and a % 0 is a
CRemZ(a, b) == IF b = 0 THEN a ELSE CRem(a, b)

\* v % n alone, without the shift by n: the remainder keeps the sign of v
WrapIndexNoShift(v, n) == CRemZ(v, n)

\* ((v % n) + n) % n
WrapIndex(v, n) == CRemZ(CRemZ(v, n) + n, n)

\* the pixel index the blend texture samples for world coordinate v in an
\* image of the given size
SampleIndex(v, size) == WrapIndex(v, size)

\* the pixel index compute_height samples: the wrapped index, clamped
ClampedSampleIndex(v, size) == Clamp(WrapIndex(v, size), 0, size - 1)

\* a colour key taken from the world position as it is, without the wrap
HeightColorKeyWorld(ix, iy, n) == <<ix, iy>>

\* the local key compute_height looks the biome colour up under, for the
\* truncated world position (ix, iy) and chunk size n
HeightColorKey(ix, iy, n) == <<WrapIndex(ix, n), WrapIndex(iy, n)>>

\* the biome colour compute_height reads for a local key
HeightColor(biome_data, color_key) ==
    IF biome_data.hasColors
    THEN IF color_key \in DOMAIN biome_data.colors
         THEN biome_data.colors[color_key]
         ELSE White
    ELSE White

\* a blend factor whose value without an image is 1.0
HeightBlendFactorOne(blendImage, ix, iy) ==
    IF blendImage # NoImage
    THEN LET sample_x == ClampedSampleIndex(ix, NoiseWidth)
             sample_y == ClampedSampleIndex(iy, NoiseHeight)
         IN  get_pixel_r(blendImage, sample_x, sample_y)
    ELSE 10

\* the blend factor compute_height samples (tenths); 0.5 without an image
HeightBlendFactor(blendImage, ix, iy) ==
    IF blendImage # NoImage
    THEN LET sample_x == ClampedSampleIndex(ix, NoiseWidth)
             sample_y == ClampedSampleIndex(iy, NoiseHeight)
         IN  get_pixel_r(blendImage, sample_x, sample_y)
    ELSE 5

\* the ramp alone, without the two clamps
BlendWeightUnclamped(blend_factor) == blend_factor - 4

\* a weight that switches biome at 0.5, without the ramp
BlendWeightStep(blend_factor) == IF blend_factor < 5 THEN 0 ELSE 2

\* the weight of the second biome, in halves: 0 below 0.4, 1 above 0.6,
\* (blend_factor - 0.4) / 0.2 between
BlendWeight(blend_factor) ==
    IF blend_factor < 4 THEN 0
    ELSE IF blend_factor > 6 THEN 2
    ELSE blend_factor - 4

\* the two biomes of the section a colour identifies
SectionBiomes(c) ==
    IF (c.r - 8) * (c.r - 8) + (c.g - 8) * (c.g - 8) + (c.b - 8) * (c.b - 8) < 4
    THEN <<"corral", "sand">>
    ELSE IF c.r > 7 THEN <<"rock", "kelp">>
    ELSE <<"rock", "lavarock">>

\* the image a biome is sampled from: the cached one, else the texture's
\* image when it is valid
BiomeImage(biome, cached) ==
    IF biome \in DOMAIN cached THEN cached[biome]
    ELSE texImage[biome]

\* a lazy insertion that stores the corral texture's image under whatever
\* key is looked up
CacheAfterLookupCorral(biome, cached) ==
    IF biome \in m_biomeNoises /\ biome \notin DOMAIN cached
       /\ texImage[biome] # NoImage
    THEN Put(cached, biome, "corral")
    ELSE cached

\* m_cachedBiomeNoiseImages after the lookup of one biome: a valid image
\* fetched from the texture is inserted under the biome's key
CacheAfterLookup(biome, cached) ==
    IF biome \in m_biomeNoises /\ biome \notin DOMAIN cached
       /\ texImage[biome] # NoImage
    THEN Put(cached, biome, texImage[biome])
    ELSE cached

\* the sample of one biome with a neutral 1.0 in place of the 0.0 an
\* unavailable image gives
BiomeSampleNeutralOne(biome, ix, iy, cached) ==
    IF biome \in m_biomeNoises /\ BiomeImage(biome, cached) # NoImage
    THEN LET sample_x == ClampedSampleIndex(ix, NoiseWidth)
             sample_y == ClampedSampleIndex(iy, NoiseHeight)
         IN  get_pixel_r(BiomeImage(biome, cached), sample_x, sample_y)
    ELSE 10

\* the sample of one biome (tenths); 0.0 when no image is available
BiomeSample(biome, ix, iy, cached) ==
    IF biome \in m_biomeNoises /\ BiomeImage(biome, cached) # NoImage
    THEN LET sample_x == ClampedSampleIndex(ix, NoiseWidth)
             sample_y == ClampedSampleIndex(iy, NoiseHeight)
         IN  get_pixel_r(BiomeImage(biome, cached), sample_x, sample_y)
    ELSE 0

\* compute_height(world_x, world_y, biome_data) for the world position
\* (wx, wy) = (wx[1]/wx[2], wy[1]/wy[2]), run with chunk size n, blend image
\* blendImage and image cache cached.  Returns the height (twentieths) and
\* the image cache it leaves.
compute_height(wx, wy, biome_data, n, blendImage, cached) ==
    LET ix == TruncToInt(wx[1], wx[2])
        iy == TruncToInt(wy[1], wy[2])
        color_key == HeightColorKey(ix, iy, n)
        biome_color == HeightColor(biome_data, color_key)
        weight == BlendWeight(HeightBlendFactor(blendImage, ix, iy))
        pair == SectionBiomes(biome_color)
        height1 == BiomeSample(pair[1], ix, iy, cached)
        cached1 == CacheAfterLookup(pair[1], cached)
        height2 == BiomeSample(pair[2], ix, iy, cached1)
        cached2 == CacheAfterLookup(pair[2], cached1)
    IN  [height |-> height1 * (2 - weight) + height2 * weight,
         cached |-> cached2]

\* ------------------------------------------------------------------------
\* generate_chunk_with_biome_data: level of detail and mesh
\* ------------------------------------------------------------------------
\* the mesh resolution chosen for chunk (cx, cy) with chunk size n;
\* distance > d is decided on the squared distance
Resolution(cx, cy, n) ==
    LET d2 == cx * cx + cy * cy
    IN  IF d2 > 20 * 20 THEN 8
        ELSE IF d2 > 12 * 12 THEN 16
        ELSE IF d2 > 6 * 6 THEN n
        ELSE 2 * n

\* the position x / resolution * n of grid line x, as a rational; for
\* resolution 0 the float is 0/0 (NaN), converted to int 0 on the hardware
\* that gets this far
GridPos(x, resolution, n) ==
    IF resolution = 0 THEN <<0, 1>> ELSE <<x * n, resolution>>

\* c * n + pos for the rational pos
WorldPos(c, n, pos) == <<c * n * pos[2] + pos[1], pos[2]>>

\* the inner loop of the vertex loop: row z after its vertices acc have been
\* emitted; each vertex is (xpos, height * m_heightMultiplier, zpos),
\* heights in twentieths
RECURSIVE BuildRow(_, _, _, _, _, _, _, _, _)
BuildRow(z, cx, cy, resolution, biome_data, n, blendImage, cached, acc) ==
    IF Len(acc) > resolution
    THEN [vertices |-> acc, cached |-> cached]
    ELSE LET xpos == GridPos(Len(acc), resolution, n)
             zpos == GridPos(z, resolution, n)
             h == compute_height(WorldPos(cx, n, xpos), WorldPos(cy, n, zpos),
                                 biome_data, n, blendImage, cached)
         IN  BuildRow(z, cx, cy, resolution, biome_data, n, blendImage,
                      h.cached,
                      Append(acc, [x |-> xpos,
                                   y |-> h.height * m_heightMultiplier,
                                   z |-> zpos]))

\* the outer loop of the vertex loop, after the rows acc have been emitted
RECURSIVE BuildVertices(_, _, _, _, _, _, _, _)
BuildVertices(cx, cy, resolution, biome_data, n, blendImage, cached, acc) ==
    IF resolution < 0 \/ Len(acc) >= (resolution + 1) * (resolution + 1)
    THEN [vertices |-> acc, cached |-> cached]
    ELSE LET row == BuildRow(Len(acc) \div (resolution + 1), cx, cy,
                             resolution, biome_data, n, blendImage, cached,
                             <<>>)
         IN  BuildVertices(cx, cy, resolution, biome_data, n, blendImage,
                           row.cached, acc \o row.vertices)

\* an index loop that takes the row stride to be resolution + 2
BuildIndicesWide(resolution) ==
    IF resolution <= 0 THEN <<>>
    ELSE [j \in 1 .. 6 * resolution * resolution |->
            LET q == (j - 1) \div 6
                k == (j - 1) % 6
                z == q \div resolution
                x == q % resolution
                i == z * (resolution + 2) + x
            IN  CASE k = 0 -> i
                  [] k = 1 -> i + 1
                  [] k = 2 -> i + (resolution + 2)
                  [] k = 3 -> i + 1
                  [] k = 4 -> i + (resolution + 2) + 1
                  [] OTHER -> i + (resolution + 2)]

\* an index loop whose second triangle runs the other way round
BuildIndicesFlipped(resolution) ==
    IF resolution <= 0 THEN <<>>
    ELSE [j \in 1 .. 6 * resolution * resolution |->
            LET q == (j - 1) \div 6
                k == (j - 1) % 6
                z == q \div resolution
                x == q % resolution
                i == z * (resolution + 1) + x
            IN  CASE k = 0 -> i
                  [] k = 1 -> i + 1
                  [] k = 2 -> i + (resolution + 1)
                  [] k = 3 -> i + 1
                  [] k = 4 -> i + (resolution + 1)
                  [] OTHER -> i + (resolution + 1) + 1]

\* the index loop: two triangles per quad
BuildIndices(resolution) ==
    IF resolution <= 0 THEN <<>>
    ELSE [j \in 1 .. 6 * resolution * resolution |->
            LET q == (j - 1) \div 6
                k == (j - 1) % 6
                z == q \div resolution
                x == q % resolution
                i == z * (resolution + 1) + x
            IN  CASE k = 0 -> i
                  [] k = 1 -> i + 1
                  [] k = 2 -> i + (resolution + 1)
                  [] k = 3 -> i + 1
                  [] k = 4 -> i + (resolution + 1) + 1
                  [] OTHER -> i + (resolution + 1)]

\* ------------------------------------------------------------------------
\* Per-chunk textures
\* ------------------------------------------------------------------------
Max2(a, b) == IF a > b THEN a ELSE b

RECURSIVE MaxOver(_, _, _)
\* the fold MAX(m, key[c] + 1) over a set of Vector2i keys
MaxOver(keys, c, m) ==
    IF keys = {} THEN m
    ELSE LET key == CHOOSE k \in keys : TRUE
         IN  MaxOver(keys \ {key}, c, Max2(m, key[c] + 1))

\* find_chunk_size_from_data: every top-level key is read as a Vector2i; a
\* String key ("colors", "weights") converts to Vector2i(0, 0)
find_chunk_size_from_data(biome_data) ==
    LET stringKeys == IF biome_data.hasColors \/ biome_data.hasWeights
                      THEN {<<0, 0>>} ELSE {}
        keys == stringKeys \cup DOMAIN biome_data.direct
        max_x == MaxOver(keys, 1, 0)
        max_y == MaxOver(keys, 2, 0)
    IN  IF max_x > max_y THEN max_x ELSE max_y

\* one pixel of the blend texture (RGBA8): the biome colour and, in alpha,
\* the blend factor (0.5 without a blend image)
BlendPixel(cx, cy, x, y, n, biome_data, blendImage) ==
    LET biome_color == IF <<x, y>> \in DOMAIN biome_data.colors
                       THEN biome_data.colors[<<x, y>>] ELSE White
        world_x == cx * n + x
        world_y == cy * n + y
        blend_factor ==
            IF blendImage # NoImage
            THEN get_pixel_r(blendImage, SampleIndex(world_x, NoiseWidth),
                             SampleIndex(world_y, NoiseHeight))
            ELSE 5
    IN  [r |-> ToByte(biome_color.r, 10), g |-> ToByte(biome_color.g, 10),
         b |-> ToByte(biome_color.b, 10), a |-> ToByte(blend_factor, 10)]

\* a blend texture generation that rasterises on every call, without the
\* cache lookup
generate_biome_blend_texture_uncached(cx, cy, biome_data, cache, n, blendImage) ==
    LET chunk_pos == <<cx, cy>>
        n1 == IF n <= 0 THEN find_chunk_size_from_data(biome_data) ELSE n
        img1 == IF blendImage = NoImage /\ m_noiseBlend
                THEN texImage[BlendKey] ELSE blendImage
        texture == [valid |-> TRUE,
                    px |-> [k \in LocalKeys(n1) |->
                              BlendPixel(cx, cy, k[1], k[2], n1, biome_data, img1)]]
    IN  IF n1 <= 0 \/ ~biome_data.hasColors
        THEN [ret |-> NoTexture, cache |-> cache, n |-> n1,
              blendImage |-> blendImage]
        ELSE [ret |-> texture, cache |-> Put(cache, chunk_pos, texture),
              n |-> n1, blendImage |-> img1]

\* generate_biome_blend_texture_with_data(cx, cy, biome_data), run with
\* blend cache cache, chunk size n and blend image blendImage.  Returns the
\* texture and what the call leaves of each.
generate_biome_blend_texture_with_data(cx, cy, biome_data, cache, n, blendImage) ==
    LET chunk_pos == <<cx, cy>>
        n1 == IF n <= 0 THEN find_chunk_size_from_data(biome_data) ELSE n
        img1 == IF blendImage = NoImage /\ m_noiseBlend
                THEN texImage[BlendKey] ELSE blendImage
        texture == [valid |-> TRUE,
                    px |-> [k \in LocalKeys(n1) |->
                              BlendPixel(cx, cy, k[1], k[2], n1, biome_data, img1)]]
    IN  IF chunk_pos \in DOMAIN cache
        THEN [ret |-> cache[chunk_pos], cache |-> cache, n |-> n,
              blendImage |-> blendImage]
        ELSE IF n1 <= 0 \/ ~biome_data.hasColors
        THEN [ret |-> NoTexture, cache |-> cache, n |-> n1,
              blendImage |-> blendImage]
        ELSE [ret |-> texture, cache |-> Put(cache, chunk_pos, texture),
              n |-> n1, blendImage |-> img1]

\* the pixel loop of the height map from pixel number i on (row by row)
RECURSIVE HeightPixels(_, _, _, _, _, _, _, _)
HeightPixels(i, cx, cy, biome_data, n, blendImage, cached, acc) ==
    IF i >= n * n
    THEN [px |-> acc, cached |-> cached]
    ELSE LET x == i % n
             y == i \div n
             h == compute_height(<<cx * n + x, 1>>, <<cy * n + y, 1>>,
                                 biome_data, n, blendImage, cached)
         IN  HeightPixels(i + 1, cx, cy, biome_data, n, blendImage, h.cached,
                          Put(acc, <<x, y>>, ToByte(h.height, 20)))

\* a height map generation that rasterises on every call, without the
\* cache lookup
generate_heightmap_texture_uncached(cx, cy, biome_data, cache, n, blendImage, cached) ==
    LET chunk_pos == <<cx, cy>>
        img == HeightPixels(0, cx, cy, biome_data, n, blendImage, cached,
                            [k \in {} |-> 0])
        texture == [valid |-> TRUE, px |-> img.px]
    IN  IF n <= 0
        THEN [ret |-> NoTexture, cache |-> cache, cached |-> cached,
              fault |-> TRUE]
        ELSE [ret |-> texture, cache |-> Put(cache, chunk_pos, texture),
              cached |-> img.cached, fault |-> FALSE]

\* generate_heightmap_texture_with_data(cx, cy, biome_data).  Image::create
\* with a size <= 0 returns a null image, which the next statement
\* dereferences: fault.
generate_heightmap_texture_with_data(cx, cy, biome_data, cache, n, blendImage, cached) ==
    LET chunk_pos == <<cx, cy>>
        img == HeightPixels(0, cx, cy, biome_data, n, blendImage, cached,
                            [k \in {} |-> 0])
        texture == [valid |-> TRUE, px |-> img.px]
    IN  IF chunk_pos \in DOMAIN cache
        THEN [ret |-> cache[chunk_pos], cache |-> cache, cached |-> cached,
              fault |-> FALSE]
        ELSE IF n <= 0
        THEN [ret |-> NoTexture, cache |-> cache, cached |-> cached,
              fault |-> TRUE]
        ELSE [ret |-> texture, cache |-> Put(cache, chunk_pos, texture),
              cached |-> img.cached, fault |-> FALSE]

\* the mesh buffers generate_chunk_with_biome_data builds for chunk (cx, cy)
\* with chunk size n, and the image cache the vertex loop leaves
BuildMesh(cx, cy, biome_data, n, blendImage, cached) ==
    LET resolution == Resolution(cx, cy, n)
        mesh == BuildVertices(cx, cy, resolution, biome_data, n,
                              blendImage, cached, <<>>)
    IN  [resolution |-> resolution, vertices |-> mesh.vertices,
         indices |-> BuildIndices(resolution), cached |-> mesh.cached]

\* ------------------------------------------------------------------------
\* Inputs of the operations
\* ------------------------------------------------------------------------
\* chunk sizes passed to initialize
InitSizes == {0, 1}
\* chunk coordinates requested
RequestCoords == {<<0, 0>>, <<1, 1>>}
\* corners of the active rectangle passed to cleanup_chunk_caches
WindowCorners == {<<0, 0>>, <<1, 1>>}
\* biome data passed with a request
BiomeDataInputs == {UniformData(1, Grey), EmptyData}
\* the noise textures whose image generation completes; the others stay
\* pending for the whole run
Bakeable == {"blend", "corral"}

\* chunk coordinates and window corners of the eviction runs
CacheCoords == {<<0, 0>>, <<1, 1>>, <<2, 2>>}
CacheCorners == {<<0, 0>>, <<1, 1>>, <<2, 1>>}
\* chunk sizes and chunk coordinates whose level of detail is tabulated; the
\* coordinates lie on both sides of the distances 6, 12 and 20
LodSizes == 1 .. MaxLodSize
LodCoords == {<<0, 0>>, <<6, 0>>, <<5, 4>>, <<0, -12>>, <<9, 8>>,
              <<20, 0>>, <<-13, -16>>, <<21, 0>>}
\* chunk sizes and chunk coordinates a mesh is built for
MeshSizes == -1 .. MaxMeshSize
MeshCoords == {<<0, 0>>, <<-3, 4>>, <<7, 0>>, <<0, -13>>, <<21, 0>>}
\* world coordinates num/den and image sides of the wrapped samples
WrapNums == -MaxWorld .. MaxWorld
WrapDens == {1, 2}
ImageSizes == 1 .. MaxImageSize
\* chunk sizes and chunk coordinates of the colour-key queries
KeySizes == 1 .. 3
KeyCoords == {<<0, 0>>, <<-1, 0>>, <<1, -2>>, <<-2, -1>>, <<-3, 2>>}
\* biome data of a chunk of size n whose colour differs at every local key
PatchData(n) ==
    BiomeData(TRUE, [k \in LocalKeys(n) |-> Color(k[1] + 1, k[2] + 1, 0, 10)],
              TRUE, NoColors)
\* chunk coordinates and chunk sizes passed to generate_biome_data
BiomeCoords == {<<0, 0>>, <<-1, 2>>, <<1, 1>>}
BiomeSizes == {0, 1, 2}
\* chunk coordinates whose neighbours are meshed
SeamCoords == {<<0, 0>>, <<-1, 0>>, <<1, -2>>}
\* numbers of image sides a coordinate is shifted by
TileShifts == {-1, 1, 2}
\* the queries of compute_height on its own: chunk sizes, the sets of
\* textures already baked, coordinates num/den and the colour of the chunk
HeightSizes == {1, 2}
HeightBaked == {{}, {"rock", "kelp"}, {"rock", "kelp", "blend"}, NoiseKeys}
HeightPoints == {<<0, 1>>, <<3, 2>>, <<-5, 2>>, <<2, 1>>}
HeightColors == {Grey, Red, Black, White}
\* the seven noise definitions load_resources loads
NoiseDefs == NoiseKeys \cup {"section"}
\* the noise definitions that fail to load in a run of initialize
LoadFailures == {{}, NoiseDefs}
\* chunk sizes passed to initialize in the runs with an invalid chunk size
SizeInputs == {-1, 0, 2}
\* biome data whose colours sit under top-level Vector2i keys
DirectData ==
    BiomeData(FALSE, NoColors, FALSE,
              [k \in {<<0, 0>>, <<1, 1>>} |-> Grey])
\* biome data passed to the requests of those runs
SizeData == {EmptyData, UniformData(1, Grey), DirectData}
\* the weight every biome gets in a weighted query (tenths)
HeightWeights == {0, 10}

\* ------------------------------------------------------------------------
\* State after construction
\* ------------------------------------------------------------------------
Constructed ==
    /\ m_chunkSize = 0
    /\ initialized = FALSE
    /\ readyDone = FALSE
    /\ maskState \in {"absent", "ready"}
    /\ debug_enabled \in BOOLEAN
    /\ biome_mask_node = NullNode
    /\ m_biomeNoises = {}
    /\ m_noiseBlend = FALSE
    /\ texImage = [k \in NoiseKeys |-> NoImage]
    /\ m_cachedBiomeNoiseImages = EmptyMap
    /\ m_blendNoiseImage = NoImage
    /\ timers = {}
    /\ m_biomeBlendTextureCache = [c \in {} |-> NoTexture]
    /\ m_heightmapTextureCache = [c \in {} |-> NoTexture]
    /\ faulted = FALSE

Init == Constructed /\ last = NoOp

\* ------------------------------------------------------------------------
\* initialize, _ready and the polling protocol
\* ------------------------------------------------------------------------
\* an invalid Ref<FastNoiseLite>, and the Perlin noise of frequency 0.05 that
\* create_noise_texture configures in its place
NoNoise == "NoNoise"
DefaultNoise == "default"

\* a create_noise_texture that gives up on an invalid noise
create_noise_texture_or_null(noise, width, height) ==
    IF noise = NoNoise THEN NoTexture
    ELSE [valid |-> TRUE, noise |-> noise, width |-> width, height |-> height]

\* create_noise_texture(noise, width, height, seamless): a texture is always
\* returned; an invalid noise is replaced by the default noise
create_noise_texture(noise, width, height) ==
    [valid |-> TRUE,
     noise |-> IF noise = NoNoise THEN DefaultNoise ELSE noise,
     width |-> width, height |-> height]

\* the seven textures load_resources creates when the noise definitions in
\* failed do not load (load_cached returns an invalid Ref for them)
LoadedTextures(failed) ==
    [d \in NoiseDefs |->
        create_noise_texture(IF d \in failed THEN NoNoise ELSE d,
                             NoiseWidth, NoiseHeight)]

\* load_resources when the noise definitions in failed do not load: a biome
\* key is registered when its texture is valid; no texture is baked yet
load_resources_from(failed) ==
    \E tex \in {LoadedTextures(failed)} :
        /\ m_biomeNoises' = {k \in BiomeKeys : tex[k].valid}
        /\ m_noiseBlend' = tex[BlendKey].valid
        /\ texImage' = [k \in NoiseKeys |-> NoImage]

\* load_resources
load_resources == \E failed \in LoadFailures : load_resources_from(failed)

\* initialize(chunk_size)
initialize(chunk_size) ==
    /\ ~faulted
    /\ ~initialized
    /\ initialized' = TRUE
    /\ m_chunkSize' = chunk_size
    /\ load_resources
    /\ biome_mask_node' = IF maskState = "absent" THEN NullNode ELSE MaskNode
    /\ last' = [op |-> "initialize"]
    /\ UNCHANGED <<readyDone, maskState, debug_enabled, m_cachedBiomeNoiseImages,
                   m_blendNoiseImage, timers, chunkVars, faulted>>

\* wait_for_texture_async(texture, biome_key): a started repeating Timer
\* whose timeout is connected to on_texture_ready bound to (texture, key)
wait_for_texture_async(live, biome_key) == live \cup {biome_key}

\* cache_resources: one poll for the blend texture and one per biome
cache_resources ==
    LET live == IF m_noiseBlend
                THEN wait_for_texture_async(timers, BlendKey) ELSE timers
    IN  timers' = live \cup UNION {wait_for_texture_async(live, key) :
                                       key \in m_biomeNoises}

\* _ready(), called once by the engine when the node is in the scene tree
Ready ==
    /\ ~faulted
    /\ ~readyDone
    /\ readyDone' = TRUE
    /\ IF biome_mask_node = NullNode \/ maskState # "ready"
       THEN UNCHANGED timers
       ELSE cache_resources
    /\ last' = [op |-> "_ready"]
    /\ UNCHANGED <<m_chunkSize, initialized, maskState, debug_enabled,
                   biome_mask_node, noiseVars, chunkVars, faulted>>

\* a NoiseTexture2D finishes generating its image (environment)
BakeComplete(k) ==
    /\ ~faulted
    /\ initialized
    /\ texImage[k] = NoImage
    /\ texImage' = [texImage EXCEPT ![k] = k]
    /\ last' = [op |-> "bake", key |-> k]
    /\ UNCHANGED <<m_chunkSize, sceneVars, m_biomeNoises, m_noiseBlend,
                   m_cachedBiomeNoiseImages, m_blendNoiseImage, timers,
                   chunkVars, faulted>>

\* timer->stop(); remove_child(timer); timer->queue_free().  A pointer that
\* designates no live Timer faults the process.
RetireTimer(timer) ==
    IF timer \in timers
    THEN timers' = timers \ {timer} /\ UNCHANGED faulted
    ELSE faulted' = TRUE /\ UNCHANGED timers

\* a callback that stores and retires without testing the image
on_texture_ready_untested(texture, biome_key, timer) ==
    LET noise_img == texImage[texture]
    IN  /\ IF biome_key = BlendKey
           THEN /\ m_blendNoiseImage' = noise_img
                /\ UNCHANGED m_cachedBiomeNoiseImages
           ELSE /\ m_cachedBiomeNoiseImages' =
                       Put(m_cachedBiomeNoiseImages, biome_key, noise_img)
                /\ UNCHANGED m_blendNoiseImage
        /\ RetireTimer(timer)

\* on_texture_ready(texture, biome_key, timer)
on_texture_ready(texture, biome_key, timer) ==
    LET noise_img == texImage[texture]
    IN  IF noise_img # NoImage
        THEN /\ IF biome_key = BlendKey
                THEN /\ m_blendNoiseImage' = noise_img
                     /\ UNCHANGED m_cachedBiomeNoiseImages
                ELSE /\ m_cachedBiomeNoiseImages' =
                            Put(m_cachedBiomeNoiseImages, biome_key, noise_img)
                     /\ UNCHANGED m_blendNoiseImage
             /\ RetireTimer(timer)
        ELSE UNCHANGED <<m_blendNoiseImage, m_cachedBiomeNoiseImages,
                         timers, faulted>>

\* the value of the parameter `timer` when the body runs: the connection
\* binds (texture, biome_key) only and "timeout" carries no argument, so
\* the third parameter is read past the argument array
UnboundTimer == "unbound"

\* A tick of the Timer started for key k.  The callable receives two of
\* the three parameters of on_texture_ready: a build with DEBUG_ENABLED
\* checks the argument count and rejects the call.  A build without it
\* reads the third argument past the argument array: the read itself
\* faults, or the body runs with the unbound parameter.
TimerTimeout(k) ==
    /\ ~faulted
    /\ k \in timers
    /\ IF debug_enabled
       THEN /\ last' = [op |-> "timeout", key |-> k, called |-> FALSE]
            /\ UNCHANGED <<m_blendNoiseImage, m_cachedBiomeNoiseImages,
                           timers, faulted>>
       ELSE \/ /\ faulted' = TRUE
               /\ last' = [op |-> "timeout", key |-> k, called |-> FALSE]
               /\ UNCHANGED <<m_blendNoiseImage, m_cachedBiomeNoiseImages,
                              timers>>
            \/ /\ on_texture_ready(k, k, UnboundTimer)
               /\ last' = [op |-> "timeout", key |-> k, called |-> TRUE]
    /\ UNCHANGED <<m_chunkSize, sceneVars, m_biomeNoises, m_noiseBlend,
                   texImage, chunkVars>>

\* ------------------------------------------------------------------------
\* generate_chunk_with_biome_data and cleanup_chunk_caches
\* ------------------------------------------------------------------------
\* generate_chunk_with_biome_data(cx, cy, biome_data): the mesh, then the
\* blend texture, then the height map, each from what the previous stage
\* left.  With m_chunkSize = 0 the first compute_height takes a remainder
\* by zero: the process faults where the integer divide traps, and goes on
\* where it does not.
GenerateChunk(cx, cy, biome_data) ==
    /\ ~faulted
    /\ \/ /\ m_chunkSize = 0
          /\ faulted' = TRUE
          /\ last' = [op |-> "generate", coord |-> <<cx, cy>>,
                      data |-> biome_data, completed |-> FALSE]
          /\ UNCHANGED <<m_chunkSize, m_blendNoiseImage,
                         m_cachedBiomeNoiseImages, chunkVars>>
       \/ \E mesh \in {BuildMesh(cx, cy, biome_data, m_chunkSize,
                                  m_blendNoiseImage, m_cachedBiomeNoiseImages)} :
          \E blend \in {generate_biome_blend_texture_with_data(
                            cx, cy, biome_data, m_biomeBlendTextureCache,
                            m_chunkSize, m_blendNoiseImage)} :
          \E height \in {generate_heightmap_texture_with_data(
                             cx, cy, biome_data, m_heightmapTextureCache,
                             blend.n, blend.blendImage, mesh.cached)} :
              /\ m_chunkSize' = blend.n
              /\ m_blendNoiseImage' = blend.blendImage
              /\ m_cachedBiomeNoiseImages' = height.cached
              /\ m_biomeBlendTextureCache' = blend.cache
              /\ m_heightmapTextureCache' = height.cache
              /\ faulted' = height.fault
              /\ last' = [op |-> "generate", coord |-> <<cx, cy>>,
                          data |-> biome_data,
                          completed |-> ~height.fault,
                          resolution |-> mesh.resolution,
                          vertices |-> mesh.vertices, indices |-> mesh.indices,
                          blendRet |-> blend.ret, heightRet |-> height.ret,
                          blendHit |-> <<cx, cy>> \in DOMAIN m_biomeBlendTextureCache,
                          heightHit |-> <<cx, cy>> \in DOMAIN m_heightmapTextureCache]
    /\ UNCHANGED <<sceneVars, m_biomeNoises, m_noiseBlend, texImage, timers>>

\* a range test on the x coordinate alone
OutsideRangeX(chunk_pos, min_chunk, max_chunk) ==
    chunk_pos[1] < min_chunk[1] \/ chunk_pos[1] > max_chunk[1]

\* chunk_pos lies outside the inclusive rectangle [min_chunk, max_chunk]
OutsideRange(chunk_pos, min_chunk, max_chunk) ==
    \/ chunk_pos[1] < min_chunk[1] \/ chunk_pos[1] > max_chunk[1]
    \/ chunk_pos[2] < min_chunk[2] \/ chunk_pos[2] > max_chunk[2]

\* the keys one pass of cleanup_chunk_caches collects from a cache
keys_to_remove(cache, min_chunk, max_chunk) ==
    {chunk_pos \in DOMAIN cache : OutsideRange(chunk_pos, min_chunk, max_chunk)}

\* a cleanup that also drops the noise images
cleanup_all_caches(min_chunk, max_chunk) ==
    /\ ~faulted
    /\ m_biomeBlendTextureCache' =
           Erase(m_biomeBlendTextureCache,
                 keys_to_remove(m_biomeBlendTextureCache, min_chunk, max_chunk))
    /\ m_heightmapTextureCache' =
           Erase(m_heightmapTextureCache,
                 keys_to_remove(m_heightmapTextureCache, min_chunk, max_chunk))
    /\ m_cachedBiomeNoiseImages' = EmptyMap
    /\ m_blendNoiseImage' = NoImage
    /\ last' = [op |-> "cleanup", min |-> min_chunk, max |-> max_chunk,
                removedBlend |->
                    keys_to_remove(m_biomeBlendTextureCache, min_chunk, max_chunk),
                removedHeight |->
                    keys_to_remove(m_heightmapTextureCache, min_chunk, max_chunk)]
    /\ UNCHANGED <<m_chunkSize, sceneVars, m_biomeNoises, m_noiseBlend,
                   texImage, timers, faulted>>

\* cleanup_chunk_caches(min_chunk, max_chunk)
cleanup_chunk_caches(min_chunk, max_chunk) ==
    LET keys_to_remove_blend ==
            keys_to_remove(m_biomeBlendTextureCache, min_chunk, max_chunk)
        keys_to_remove_height ==
            keys_to_remove(m_heightmapTextureCache, min_chunk, max_chunk)
    IN  /\ ~faulted
        /\ m_biomeBlendTextureCache' =
               Erase(m_biomeBlendTextureCache, keys_to_remove_blend)
        /\ m_heightmapTextureCache' =
               Erase(m_heightmapTextureCache, keys_to_remove_height)
        /\ last' = [op |-> "cleanup", min |-> min_chunk, max |-> max_chunk,
                    removedBlend |-> keys_to_remove_blend,
                    removedHeight |-> keys_to_remove_height]
        /\ UNCHANGED <<m_chunkSize, sceneVars, noiseVars, timers, faulted>>

Next ==
    \/ \E chunk_size \in InitSizes : initialize(chunk_size)
    \/ Ready
    \/ \E k \in Bakeable : BakeComplete(k)
    \/ \E k \in NoiseKeys : TimerTimeout(k)
    \/ \E c \in RequestCoords, d \in BiomeDataInputs : GenerateChunk(c[1], c[2], d)
    \/ \E lo \in WindowCorners, hi \in WindowCorners : cleanup_chunk_caches(lo, hi)

Spec == Init /\ [][Next]_vars

\* the readiness protocol on its own, under fair firing of each Timer's
\* ticks (a started repeating Timer fires every 100 ms)
LiveNext ==
    \/ \E chunk_size \in InitSizes : initialize(chunk_size)
    \/ Ready
    \/ \E k \in NoiseKeys : BakeComplete(k)
    \/ \E k \in NoiseKeys : TimerTimeout(k)

LiveSpec ==
    Init /\ [][LiveNext]_vars /\ \A k \in NoiseKeys : WF_vars(TimerTimeout(k))

\* key k has an image in the noise-image cache
Stored(k) ==
    IF k = BlendKey THEN m_blendNoiseImage # NoImage
    ELSE k \in DOMAIN m_cachedBiomeNoiseImages

\* the image the noise-image cache holds for key k
StoredImage(k) ==
    IF k = BlendKey THEN m_blendNoiseImage ELSE m_cachedBiomeNoiseImages[k]

\* ------------------------------------------------------------------------
\* Eviction runs: requests over four coordinates, windows over three corners
\* ------------------------------------------------------------------------
CacheNext ==
    \/ initialize(1)
    \/ \E c \in CacheCoords, d \in BiomeDataInputs : GenerateChunk(c[1], c[2], d)
    \/ \E lo \in CacheCorners, hi \in CacheCorners : cleanup_chunk_caches(lo, hi)

CacheSpec == Init /\ [][CacheNext]_vars

\* ------------------------------------------------------------------------
\* The pure parts of generate_chunk_with_biome_data, applied to inputs
\* ------------------------------------------------------------------------
\* the queries: a level of detail for two chunk coordinates, a mesh, a
\* wrapped sample
LodArgs ==
    {[op |-> "lodArgs", size |-> n, c1 |-> c1, c2 |-> c2] :
        n \in LodSizes, c1 \in LodCoords, c2 \in LodCoords}
MeshArgs ==
    {[op |-> "meshArgs", size |-> n, coord |-> c] :
        n \in MeshSizes, c \in MeshCoords}
WrapArgs ==
    {[op |-> "wrapArgs", x |-> <<num, den>>, size |-> size] :
        num \in WrapNums, den \in WrapDens, size \in ImageSizes}

\* a world coordinate, an image side and a number of image sides to shift by
TileArgs ==
    {[op |-> "tileArgs", x |-> <<num, den>>, size |-> size, shift |-> k] :
        num \in WrapNums, den \in WrapDens, size \in ImageSizes,
        k \in TileShifts}

\* a chunk size, a chunk coordinate and a local offset inside the chunk
KeyArgs ==
    {a \in [op : {"keyArgs"}, size : KeySizes, coord : KeyCoords,
            local : LocalKeys(3)] :
        a.local[1] < a.size /\ a.local[2] < a.size}

\* a constructed generator and one pending query
FnInit ==
    Constructed /\ last \in LodArgs \cup MeshArgs \cup WrapArgs \cup TileArgs
                                    \cup KeyArgs

\* the level of detail chosen for the two chunk coordinates of the query
LodQuery ==
    /\ last.op = "lodArgs"
    /\ last' = [op |-> "lod", size |-> last.size, c1 |-> last.c1, c2 |-> last.c2,
                r1 |-> Resolution(last.c1[1], last.c1[2], last.size),
                r2 |-> Resolution(last.c2[1], last.c2[2], last.size)]
    /\ UNCHANGED stateVars

\* the mesh buffers built for the chunk and chunk size of the query
MeshQuery ==
    /\ last.op = "meshArgs"
    /\ \E mesh \in {BuildMesh(last.coord[1], last.coord[2],
                              UniformData(last.size, Grey), last.size,
                              m_blendNoiseImage, m_cachedBiomeNoiseImages)} :
           last' = [op |-> "mesh", size |-> last.size, coord |-> last.coord,
                    resolution |-> mesh.resolution,
                    vertices |-> Len(mesh.vertices),
                    indices |-> mesh.indices]
    /\ UNCHANGED stateVars

\* the pixel index both kinds of sampling site compute for the world
\* coordinate and image side of the query
WrapQuery ==
    /\ last.op = "wrapArgs"
    /\ last' = [op |-> "wrap", x |-> last.x, size |-> last.size,
                textureSample |->
                    SampleIndex(TruncToInt(last.x[1], last.x[2]), last.size),
                heightSample |->
                    ClampedSampleIndex(TruncToInt(last.x[1], last.x[2]), last.size)]
    /\ UNCHANGED stateVars

\* the pixel index compute_height samples for the world coordinate of the
\* query and for the coordinate shifted by shift image sides
TileQuery ==
    /\ last.op = "tileArgs"
    /\ last' = [op |-> "tile", x |-> last.x, size |-> last.size,
                shift |-> last.shift,
                sample |->
                    ClampedSampleIndex(TruncToInt(last.x[1], last.x[2]), last.size),
                shifted |->
                    ClampedSampleIndex(
                        TruncToInt(last.x[1] + last.shift * last.size * last.x[2],
                                   last.x[2]),
                        last.size)]
    /\ UNCHANGED stateVars

\* the colour key and the colour compute_height reads at the world position
\* (cx*n + x, cy*n + y) the height map passes for local offset (x, y)
KeyQuery ==
    /\ last.op = "keyArgs"
    /\ \E n \in {last.size} :
       \E key \in {HeightColorKey(TruncToInt(last.coord[1] * n + last.local[1], 1),
                                   TruncToInt(last.coord[2] * n + last.local[2], 1),
                                   n)} :
           last' = [op |-> "key", size |-> n, coord |-> last.coord,
                    local |-> last.local, key |-> key,
                    color |-> HeightColor(PatchData(n), key)]
    /\ UNCHANGED stateVars

FnNext == LodQuery \/ MeshQuery \/ WrapQuery \/ TileQuery \/ KeyQuery

FnSpec == FnInit /\ [][FnNext]_vars

\* ------------------------------------------------------------------------
\* compute_height on its own
\* ------------------------------------------------------------------------
\* an initialized generator whose polls are scheduled, with some textures
\* baked, no biome image fetched yet and no chunk texture cached
HeightInit ==
    /\ m_chunkSize \in HeightSizes
    /\ initialized = TRUE
    /\ readyDone = TRUE
    /\ maskState = "ready"
    /\ debug_enabled \in BOOLEAN
    /\ biome_mask_node = MaskNode
    /\ m_biomeNoises = BiomeKeys
    /\ m_noiseBlend = TRUE
    /\ \E baked \in HeightBaked :
           /\ texImage = [k \in NoiseKeys |-> IF k \in baked THEN k ELSE NoImage]
           /\ m_blendNoiseImage \in {NoImage, texImage[BlendKey]}
    /\ m_cachedBiomeNoiseImages = EmptyMap
    /\ timers = NoiseKeys
    /\ m_biomeBlendTextureCache = [c \in {} |-> NoTexture]
    /\ m_heightmapTextureCache = [c \in {} |-> NoTexture]
    /\ faulted = FALSE
    /\ last = NoOp

\* compute_height(world_x, world_y, biome_data) for a chunk of one colour
HeightQuery(wx, wy, color) ==
    /\ ~faulted
    /\ \E r \in {compute_height(wx, wy, UniformData(m_chunkSize, color),
                                m_chunkSize, m_blendNoiseImage,
                                m_cachedBiomeNoiseImages)} :
           /\ m_cachedBiomeNoiseImages' = r.cached
           /\ last' = [op |-> "height", x |-> wx, y |-> wy, color |-> color,
                       height |-> r.height,
                       fetched |-> DOMAIN r.cached \ DOMAIN m_cachedBiomeNoiseImages]
    /\ UNCHANGED <<m_chunkSize, sceneVars, m_biomeNoises, m_noiseBlend,
                   texImage, m_blendNoiseImage, timers, chunkVars, faulted>>

HeightNext ==
    \E wx \in HeightPoints, wy \in HeightPoints, color \in HeightColors :
        HeightQuery(wx, wy, color)

HeightSpec == HeightInit /\ [][HeightNext]_vars

\* ------------------------------------------------------------------------
\* Requests made with an unset or non-positive chunk size
\* ------------------------------------------------------------------------
SizeNext ==
    \/ \E chunk_size \in SizeInputs : initialize(chunk_size)
    \/ \E c \in RequestCoords, biome_data \in SizeData :
           GenerateChunk(c[1], c[2], biome_data)

SizeSpec == Init /\ [][SizeNext]_vars

\* ------------------------------------------------------------------------
\* load_resources on its own, over every set of failed noise definitions
\* ------------------------------------------------------------------------
LoadArgs == {[op |-> "loadArgs", failed |-> f] : f \in SUBSET NoiseDefs}

LoadInit == Constructed /\ last \in LoadArgs

\* load_resources() with the noise definitions of last.failed failing
LoadQuery ==
    /\ last.op = "loadArgs"
    /\ load_resources_from(last.failed)
    /\ last' = [op |-> "load", failed |-> last.failed, ret |-> TRUE,
                textures |-> LoadedTextures(last.failed)]
    /\ UNCHANGED <<m_chunkSize, sceneVars, m_cachedBiomeNoiseImages,
                   m_blendNoiseImage, timers, chunkVars, faulted>>

LoadNext == LoadQuery

LoadSpec == LoadInit /\ [][LoadNext]_vars

\* ------------------------------------------------------------------------
\* generate_biome_data and the BiomeMask / BiomeManager autoloads
\* ------------------------------------------------------------------------
\* the BiomeMask autoload: not in the tree, in the tree but not ready, ready
MaskStates == {"absent", "loading", "ready"}

\* BiomeMask.get_biome_color(world_x, world_y): a fixed classification
\* standing for the mask image
MaskColor(wx, wy) == IF (wx + wy) % 2 = 0 THEN Grey ELSE Black

\* BiomeManager.get_biome_weights(color): full weight for the two biomes of
\* the colour's section
ManagerWeights(color) ==
    [b \in BiomeKeys |->
        IF b \in {SectionBiomes(color)[1], SectionBiomes(color)[2]}
        THEN 10 ELSE 0]

\* the dictionary generate_biome_data builds when the mask is ready: a
\* colour under each local key and a weight map under each "weights_x_y"
BiomeDataOf(cx, cy, chunk_size) ==
    LET colors == [k \in LocalKeys(chunk_size) |->
                      MaskColor(cx * chunk_size + k[1], cy * chunk_size + k[2])]
    IN  [hasColors |-> TRUE, colors |-> colors,
         hasWeights |-> TRUE, direct |-> NoColors,
         weights |-> [k \in LocalKeys(chunk_size) |-> ManagerWeights(colors[k])]]

BiomeInit ==
    /\ m_chunkSize = 0
    /\ initialized = FALSE
    /\ readyDone = FALSE
    /\ maskState \in MaskStates
    /\ debug_enabled \in BOOLEAN
    /\ biome_mask_node = NullNode
    /\ m_biomeNoises = {}
    /\ m_noiseBlend = FALSE
    /\ texImage = [k \in NoiseKeys |-> NoImage]
    /\ m_cachedBiomeNoiseImages = EmptyMap
    /\ m_blendNoiseImage = NoImage
    /\ timers = {}
    /\ m_biomeBlendTextureCache = [c \in {} |-> NoTexture]
    /\ m_heightmapTextureCache = [c \in {} |-> NoTexture]
    /\ faulted = FALSE
    /\ last = NoOp

\* the BiomeMask node finishes its own _ready (environment)
MaskReady ==
    /\ ~faulted
    /\ maskState = "loading"
    /\ maskState' = "ready"
    /\ last' = [op |-> "mask_ready"]
    /\ UNCHANGED <<m_chunkSize, initialized, readyDone, debug_enabled,
                   biome_mask_node, noiseVars, timers, chunkVars, faulted>>

\* generate_biome_data(cx, cy, chunk_size).  The first statement calls
\* is_node_ready() through biome_mask_node: a null pointer faults.
GenerateBiomeData(cx, cy, chunk_size) ==
    /\ ~faulted
    /\ IF biome_mask_node = NullNode
       THEN /\ faulted' = TRUE
            /\ last' = [op |-> "biome_data", coord |-> <<cx, cy>>,
                        size |-> chunk_size, returned |-> FALSE]
       ELSE /\ faulted' = faulted
            /\ IF maskState # "ready"
               THEN last' = [op |-> "biome_data", coord |-> <<cx, cy>>,
                             size |-> chunk_size, returned |-> TRUE,
                             queried |-> FALSE, ret |-> EmptyData]
               ELSE last' = [op |-> "biome_data", coord |-> <<cx, cy>>,
                             size |-> chunk_size, returned |-> TRUE,
                             queried |-> chunk_size > 0,
                             ret |-> BiomeDataOf(cx, cy, chunk_size)]
    /\ UNCHANGED <<m_chunkSize, sceneVars, noiseVars, timers, chunkVars>>

BiomeNext ==
    \/ \E chunk_size \in InitSizes : initialize(chunk_size)
    \/ MaskReady
    \/ \E c \in BiomeCoords, chunk_size \in BiomeSizes :
           GenerateBiomeData(c[1], c[2], chunk_size)

BiomeSpec == BiomeInit /\ [][BiomeNext]_vars

\* ------------------------------------------------------------------------
\* The meshes of two adjacent chunks
\* ------------------------------------------------------------------------
\* the heights of the vertices j * stride + first, j = 0 .. resolution, of
\* a vertex list (a column or a row of the grid)
EdgeHeights(vertices, resolution, first, stride) ==
    [j \in 1 .. resolution + 1 |-> vertices[(j - 1) * stride + first].y]

\* generate_chunk_with_biome_data for chunk c and then for its neighbour in
\* direction dir, each with the biome data generate_biome_data builds for
\* it: the heights along the edge the two meshes share
SeamQuery(c, dir) ==
    /\ ~faulted
    /\ \E n \in {m_chunkSize} :
       \E d \in {IF dir = "x" THEN <<c[1] + 1, c[2]>> ELSE <<c[1], c[2] + 1>>} :
       \E m1 \in {BuildMesh(c[1], c[2], BiomeDataOf(c[1], c[2], n), n,
                             m_blendNoiseImage, m_cachedBiomeNoiseImages)} :
       \E m2 \in {BuildMesh(d[1], d[2], BiomeDataOf(d[1], d[2], n), n,
                             m_blendNoiseImage, m1.cached)} :
           /\ m_cachedBiomeNoiseImages' = m2.cached
           /\ last' = [op |-> "seam", coord |-> c, dir |-> dir,
                       resolution1 |-> m1.resolution,
                       resolution2 |-> m2.resolution,
                       edge1 |-> IF dir = "x"
                                 THEN EdgeHeights(m1.vertices, m1.resolution,
                                                  m1.resolution + 1,
                                                  m1.resolution + 1)
                                 ELSE EdgeHeights(m1.vertices, m1.resolution,
                                                  m1.resolution * (m1.resolution + 1) + 1,
                                                  1),
                       edge2 |-> IF dir = "x"
                                 THEN EdgeHeights(m2.vertices, m2.resolution,
                                                  1, m2.resolution + 1)
                                 ELSE EdgeHeights(m2.vertices, m2.resolution,
                                                  1, 1)]
    /\ UNCHANGED <<m_chunkSize, sceneVars, m_biomeNoises, m_noiseBlend,
                   texImage, m_blendNoiseImage, timers, chunkVars, faulted>>

SeamNext == \E c \in SeamCoords, dir \in {"x", "y"} : SeamQuery(c, dir)

SeamSpec == HeightInit /\ [][SeamNext]_vars

\* compute_height(world_x, world_y, biome_data) for biome data that carries
\* a weight map per position
WeightQuery(wx, wy, color, w) ==
    /\ ~faulted
    /\ \E data \in {WeightedData(m_chunkSize, color, w)} :
       \E r \in {compute_height(wx, wy, data, m_chunkSize, m_blendNoiseImage,
                                m_cachedBiomeNoiseImages)} :
           /\ m_cachedBiomeNoiseImages' = r.cached
           /\ last' = [op |-> "weighted", x |-> wx, y |-> wy, color |-> color,
                       weights |-> data.weights, height |-> r.height]
    /\ UNCHANGED <<m_chunkSize, sceneVars, m_biomeNoises, m_noiseBlend,
                   texImage, m_blendNoiseImage, timers, chunkVars, faulted>>

WeightNext ==
    \E wx \in HeightPoints, wy \in HeightPoints, color \in HeightColors,
       w \in HeightWeights :
        WeightQuery(wx, wy, color, w)

WeightSpec == HeightInit /\ [][WeightNext]_vars

\* ------------------------------------------------------------------------
\* Properties
\* ------------------------------------------------------------------------

\* C1: a cleanup_chunk_caches(min, max) step leaves in each of the two
\* texture caches exactly the entries whose coordinate lies in the inclusive
\* rectangle [min, max], each with the texture it had before the call.
C1_Eviction ==
    [][last'.op = "cleanup" =>
         LET lo == last'.min
             hi == last'.max
         IN  /\ DOMAIN m_biomeBlendTextureCache' =
                    {c \in DOMAIN m_biomeBlendTextureCache :
                        /\ lo[1] <= c[1] /\ c[1] <= hi[1]
                        /\ lo[2] <= c[2] /\ c[2] <= hi[2]}
             /\ DOMAIN m_heightmapTextureCache' =
                    {c \in DOMAIN m_heightmapTextureCache :
                        /\ lo[1] <= c[1] /\ c[1] <= hi[1]
                        /\ lo[2] <= c[2] /\ c[2] <= hi[2]}
             /\ \A c \in DOMAIN m_biomeBlendTextureCache' :
                    m_biomeBlendTextureCache'[c] = m_biomeBlendTextureCache[c]
             /\ \A c \in DOMAIN m_heightmapTextureCache' :
                    m_heightmapTextureCache'[c] = m_heightmapTextureCache[c]]_vars

\* the scenario of C1: entries for (0,0), (1,1) and (2,2), evicted with the
\* window ((0,0), (1,1)), leave exactly the entries (0,0) and (1,1)
C1_Witness ==
    /\ last.op = "cleanup"
    /\ last.min = <<0, 0>> /\ last.max = <<1, 1>>
    /\ last.removedBlend = {<<2, 2>>}
    /\ last.removedHeight = {<<2, 2>>}
    /\ DOMAIN m_biomeBlendTextureCache = {<<0, 0>>, <<1, 1>>}
    /\ DOMAIN m_heightmapTextureCache = {<<0, 0>>, <<1, 1>>}

\* C2: an entry of either texture cache keeps its texture for as long as it
\* is present, whatever step is taken, and a request for a coordinate that
\* has an entry returns that entry and leaves the cache as it was.
C2_CacheIdempotent ==
    [][/\ \A c \in DOMAIN m_biomeBlendTextureCache \cap DOMAIN m_biomeBlendTextureCache' :
              m_biomeBlendTextureCache'[c] = m_biomeBlendTextureCache[c]
       /\ \A c \in DOMAIN m_heightmapTextureCache \cap DOMAIN m_heightmapTextureCache' :
              m_heightmapTextureCache'[c] = m_heightmapTextureCache[c]
       /\ (last'.op = "generate" /\ last'.completed) =>
              /\ last'.coord \in DOMAIN m_biomeBlendTextureCache =>
                     /\ last'.blendRet = m_biomeBlendTextureCache[last'.coord]
                     /\ m_biomeBlendTextureCache' = m_biomeBlendTextureCache
              /\ last'.coord \in DOMAIN m_heightmapTextureCache =>
                     /\ last'.heightRet = m_heightmapTextureCache[last'.coord]
                     /\ m_heightmapTextureCache' = m_heightmapTextureCache]_vars

\* a request served from both caches after the blend image has become
\* available: the texture returned still has the fallback blend factor 0.5
\* it was rasterised with
C2_Witness ==
    /\ last.op = "generate"
    /\ last.completed
    /\ last.blendHit /\ last.heightHit
    /\ m_blendNoiseImage # NoImage
    /\ last.blendRet.px[<<0, 0>>].a = 128

\* C3: after a tick of the Timer of a key whose texture has a valid image,
\* the image is stored in the noise-image cache under the key and the Timer
\* of the key is retired.
C3_BakePromotion ==
    (last.op = "timeout" /\ texImage[last.key] # NoImage) =>
        /\ Stored(last.key)
        /\ StoredImage(last.key) = texImage[last.key]
        /\ last.key \notin timers
        /\ ~faulted

\* C4: while the texture of a key has no valid image, no step retires the
\* Timer of the key and the key has no entry in the noise-image cache.
C4_NoCancellation ==
    [][\A k \in NoiseKeys :
          texImage'[k] = NoImage =>
              /\ k \in timers => k \in timers'
              /\ ~Stored(k)']_vars

\* the Timer of a texture that is never baked has ticked and is still alive
C4_Witness ==
    /\ last.op = "timeout"
    /\ last.key = "rock"
    /\ texImage["rock"] = NoImage
    /\ "rock" \in timers
    /\ ~Stored("rock")

\* C5: under fair ticks, a scheduled key whose texture has a valid image
\* eventually has its image in the noise-image cache and its Timer retired.
C5_EventuallyReady ==
    \A k \in NoiseKeys :
        (k \in timers /\ texImage[k] # NoImage) ~> (Stored(k) /\ k \notin timers)

\* C6: a key that has an image in the noise-image cache has the same image
\* after every step.
C6_NoiseImagesStable ==
    [][\A k \in NoiseKeys :
          Stored(k) => Stored(k)' /\ StoredImage(k)' = StoredImage(k)]_vars

\* a biome image and the blend image are stored, and a request and an
\* eviction have run since
C6_Witness ==
    /\ Stored("corral") /\ Stored(BlendKey)
    /\ last.op = "cleanup"
    /\ last.removedHeight # {}

\* C7: for a chunk size > 0, of two chunk coordinates the one nearer to the
\* origin gets a resolution at least that of the farther one.
C7_LodMonotone ==
    (last.op = "lod" /\ last.size > 0
     /\ last.c1[1] * last.c1[1] + last.c1[2] * last.c1[2]
            < last.c2[1] * last.c2[1] + last.c2[2] * last.c2[2])
        => last.r1 >= last.r2

\* C8: the index list of a mesh has a length divisible by 3 and every index
\* designates an emitted vertex; with resolution r >= 0 there are (r+1)^2
\* vertices and 6 r^2 indices, the largest being (r+1)^2 - 1.
C8_MeshValid ==
    last.op = "mesh" =>
        /\ Len(last.indices) % 3 = 0
        /\ \A j \in 1 .. Len(last.indices) :
               0 <= last.indices[j] /\ last.indices[j] < last.vertices
        /\ last.resolution >= 0 =>
               /\ last.vertices = (last.resolution + 1) * (last.resolution + 1)
               /\ Len(last.indices) = 6 * last.resolution * last.resolution
        /\ last.resolution >= 1 =>
               \E j \in 1 .. Len(last.indices) :
                   last.indices[j] = (last.resolution + 1) * (last.resolution + 1) - 1

\* a mesh of the nearest tier with chunk size 3: resolution 6, 49 vertices,
\* 216 indices
C8_Witness ==
    /\ last.op = "mesh"
    /\ last.size = 3
    /\ last.resolution = 6
    /\ last.vertices = 49
    /\ Len(last.indices) = 216

\* C9: for every world coordinate and every image side w > 0 the pixel
\* index computed at each sampling site lies in 0 .. w - 1.
C9_WrapRange ==
    last.op = "wrap" =>
        /\ 0 <= last.textureSample /\ last.textureSample < last.size
        /\ 0 <= last.heightSample /\ last.heightSample < last.size

\* a negative coordinate wrapped into an image of side 5: -7 lands on 3
C9_Witness ==
    /\ last.op = "wrap"
    /\ last.x = <<-7, 1>>
    /\ last.size = 5
    /\ last.textureSample = 3
    /\ last.heightSample = 3

\* C10: for a position whose biome colour is the boss-area colour,
\* compute_height returns the sample of the boss noise field and consults
\* no biome image.
C10_BossOverride ==
    (last.op = "height" /\ is_boss_area(last.color)) =>
        /\ last.height = 2 * get_boss_noise(TruncToInt(last.x[1], last.x[2]),
                                            TruncToInt(last.y[1], last.y[2]))
        /\ last.fetched = {}

\* C11: when every weight of every weight map of the biome data is 0,
\* compute_height returns 0.0, whatever the baked noise images hold.
C11_ZeroWeightsFlat ==
    (last.op = "weighted"
     /\ \A k \in DOMAIN last.weights : \A b \in BiomeKeys : last.weights[k][b] = 0)
        => last.height = 0

\* C12: in compute_height a biome whose image is neither cached nor
\* obtainable from its texture contributes nothing: the call returns, the
\* biome gets no cache entry, the height is the other biome's share alone,
\* and it is 0.0 when neither biome of the section has an image.
C12_UnavailableContributesNothing ==
    last.op = "height" =>
        LET pair == SectionBiomes(last.color)
            ix == TruncToInt(last.x[1], last.x[2])
            iy == TruncToInt(last.y[1], last.y[2])
            weight == BlendWeight(HeightBlendFactor(m_blendNoiseImage, ix, iy))
            Unavailable(b) == texImage[b] = NoImage /\ ~Stored(b)
            Share(b) == get_pixel_r(StoredImage(b),
                                    ClampedSampleIndex(ix, NoiseWidth),
                                    ClampedSampleIndex(iy, NoiseHeight))
        IN  /\ ~faulted
            /\ \A b \in {pair[1], pair[2]} :
                   Unavailable(b) => b \notin last.fetched
            /\ (Unavailable(pair[1]) /\ Unavailable(pair[2])) =>
                   last.height = 0
            /\ (Unavailable(pair[1]) /\ ~Unavailable(pair[2])) =>
                   last.height = Share(pair[2]) * weight
            /\ (~Unavailable(pair[1]) /\ Unavailable(pair[2])) =>
                   last.height = Share(pair[1]) * (2 - weight)

\* a position of the rock/lavarock section evaluated while only the rock
\* image is baked: the height is rock's share alone and is not 0
C12_Witness ==
    /\ last.op = "height"
    /\ last.color = Black
    /\ texImage["lavarock"] = NoImage /\ ~Stored("lavarock")
    /\ Stored("rock")
    /\ last.height > 0

\* C13: a request whose texture generation runs with a chunk size <= 0 that
\* the biome data cannot repair ends without a fault, returns an empty
\* texture from both generators and adds no entry to either texture cache.
C13_InvalidSizeAborts ==
    [][(/\ last'.op = "generate"
        /\ "blendRet" \in DOMAIN last'
        /\ m_chunkSize <= 0
        /\ m_chunkSize' <= 0) =>
           /\ ~faulted'
           /\ last'.blendRet = NoTexture
           /\ last'.heightRet = NoTexture
           /\ m_biomeBlendTextureCache' = m_biomeBlendTextureCache
           /\ m_heightmapTextureCache' = m_heightmapTextureCache]_vars

\* C14: every request, also one made while the chunk size is unset or not
\* positive, completes without a fault.
C14_RequestNeverFaults ==
    last.op = "generate" => last.completed /\ ~faulted

C16_BlendFallbackHalf ==
    (last.op = "generate" /\ last.completed /\ m_blendNoiseImage = NoImage) =>
        LET n == m_chunkSize
            c == last.coord
            Sample(b, k) ==
                IF Stored(b)
                THEN get_pixel_r(StoredImage(b),
                                 ClampedSampleIndex(c[1] * n + k[1], NoiseWidth),
                                 ClampedSampleIndex(c[2] * n + k[2], NoiseHeight))
                ELSE 0
            Pair(k) == SectionBiomes(HeightColor(last.data, k))
        IN  /\ (~last.blendHit /\ last.blendRet.valid) =>
                   \A k \in DOMAIN last.blendRet.px :
                       last.blendRet.px[k].a = ToByte(5, 10)
            /\ (~last.heightHit /\ last.heightRet.valid) =>
                   \A k \in DOMAIN last.heightRet.px :
                       last.heightRet.px[k] =
                           ToByte(Sample(Pair(k)[1], k) + Sample(Pair(k)[2], k), 20)

\* a request rasterised while the corral image is baked and the blend image
\* is not: alpha 128 in the blend map, half the corral sample in the height
\* map
C16_Witness ==
    /\ last.op = "generate" /\ last.completed
    /\ m_blendNoiseImage = NoImage
    /\ ~last.blendHit /\ last.blendRet.valid
    /\ ~last.heightHit /\ last.heightRet.valid
    /\ Stored("corral")
    /\ last.blendRet.px[<<0, 0>>].a = 128
    /\ last.heightRet.px[<<0, 0>>] > 0

\* C16 as stated: without a blend noise image the fallback blend factor is
\* 1.0, alpha byte 255 in the blend map and full weight of the second
\* biome in compute_height.
C16_BlendFallbackOne ==
    (last.op = "generate" /\ last.completed /\ m_blendNoiseImage = NoImage) =>
        LET n == m_chunkSize
            c == last.coord
            Sample(b, k) ==
                IF Stored(b)
                THEN get_pixel_r(StoredImage(b),
                                 ClampedSampleIndex(c[1] * n + k[1], NoiseWidth),
                                 ClampedSampleIndex(c[2] * n + k[2], NoiseHeight))
                ELSE 0
            Pair(k) == SectionBiomes(HeightColor(last.data, k))
        IN  /\ (~last.blendHit /\ last.blendRet.valid) =>
                   \A k \in DOMAIN last.blendRet.px :
                       last.blendRet.px[k].a = ToByte(10, 10)
            /\ (~last.heightHit /\ last.heightRet.valid) =>
                   \A k \in DOMAIN last.heightRet.px :
                       last.heightRet.px[k] = ToByte(2 * Sample(Pair(k)[2], k), 20)

C18_OnlyEvictionRemoves ==
    [][last'.op # "cleanup" =>
          /\ DOMAIN m_biomeBlendTextureCache \subseteq DOMAIN m_biomeBlendTextureCache'
          /\ DOMAIN m_heightmapTextureCache \subseteq DOMAIN m_heightmapTextureCache'
          /\ \A c \in DOMAIN m_biomeBlendTextureCache :
                 m_biomeBlendTextureCache'[c] = m_biomeBlendTextureCache[c]
          /\ \A c \in DOMAIN m_heightmapTextureCache :
                 m_heightmapTextureCache'[c] = m_heightmapTextureCache[c]
          /\ IF last'.op = "generate"
             THEN /\ DOMAIN m_biomeBlendTextureCache' \subseteq
                         DOMAIN m_biomeBlendTextureCache \cup {last'.coord}
                  /\ DOMAIN m_heightmapTextureCache' \subseteq
                         DOMAIN m_heightmapTextureCache \cup {last'.coord}
             ELSE /\ m_biomeBlendTextureCache' = m_biomeBlendTextureCache
                  /\ m_heightmapTextureCache' = m_heightmapTextureCache]_vars

\* a request for chunk (1,1) has added its two textures next to the entries
\* of chunk (0,0)
C18_Witness ==
    /\ last.op = "generate" /\ last.completed
    /\ last.coord = <<1, 1>>
    /\ ~last.blendHit /\ ~last.heightHit
    /\ DOMAIN m_biomeBlendTextureCache = {<<0, 0>>, <<1, 1>>}
    /\ DOMAIN m_heightmapTextureCache = {<<0, 0>>, <<1, 1>>}

\* C19: a tick of the Timer of a key whose texture has no valid image
\* leaves the noise-image cache, the two texture caches and the set of live
\* Timers as they were, and the Timer of the key can tick again.
C19_InvalidTickNoEffect ==
    [][(last'.op = "timeout" /\ texImage[last'.key] = NoImage) =>
          /\ m_cachedBiomeNoiseImages' = m_cachedBiomeNoiseImages
          /\ m_blendNoiseImage' = m_blendNoiseImage
          /\ m_biomeBlendTextureCache' = m_biomeBlendTextureCache
          /\ m_heightmapTextureCache' = m_heightmapTextureCache
          /\ timers' = timers
          /\ last'.key \in timers' /\ ~faulted']_vars

\* C20: in every reachable state a key that has an image in the noise-image
\* cache has no live polling Timer.
C20_StoredMeansNoTimer ==
    \A k \in NoiseKeys : Stored(k) => k \notin timers

\* C21: compute_height returns the first biome's sample when the blend
\* factor is below 0.4, the second biome's when it is above 0.6, and between
\* the two the mix with weight (b - 0.4) / 0.2; the weight is non-decreasing
\* in the blend factor, 0 at 0.4 and 1 at 0.6.
C21_DeadZoneBlend ==
    last.op = "height" =>
        LET ix == TruncToInt(last.x[1], last.x[2])
            iy == TruncToInt(last.y[1], last.y[2])
            sx == ClampedSampleIndex(ix, NoiseWidth)
            sy == ClampedSampleIndex(iy, NoiseHeight)
            b == IF m_blendNoiseImage = NoImage THEN 5
                 ELSE get_pixel_r(m_blendNoiseImage, sx, sy)
            pair == SectionBiomes(last.color)
            Sample(k) == IF Stored(k) THEN get_pixel_r(StoredImage(k), sx, sy)
                         ELSE 0
        IN  /\ b < 4 => last.height = 2 * Sample(pair[1])
            /\ b > 6 => last.height = 2 * Sample(pair[2])
            /\ (4 <= b /\ b <= 6) =>
                   last.height = Sample(pair[1]) * (6 - b) + Sample(pair[2]) * (b - 4)
            /\ BlendWeight(4) = 0 /\ BlendWeight(6) = 2
            /\ \A b1 \in 0 .. 10 : \A b2 \in b1 .. 10 :
                   BlendWeight(b1) <= BlendWeight(b2)

\* a position of the rock/kelp section where the blend image holds 0.5: the
\* height is the equal mix of the rock sample 1.0 and the kelp sample 0.2
C21_Witness ==
    /\ last.op = "height"
    /\ last.color = Red
    /\ last.x = <<3, 2>> /\ last.y = <<0, 1>>
    /\ m_blendNoiseImage = BlendKey
    /\ Stored("rock") /\ Stored("kelp")
    /\ last.height = 12

\* C22: in a mesh of resolution r >= 1 the two triangles of every quad
\* (x, z) use exactly the four corner vertices of the quad, share the
\* diagonal, have their third vertices on the two other corners, and all
\* triangles have the same orientation (signed area) in the grid plane.
C22_ConsistentWinding ==
    (last.op = "mesh" /\ last.resolution >= 1) =>
        LET r == last.resolution
            idx == last.indices
            GX(v) == v % (r + 1)
            GZ(v) == v \div (r + 1)
            \* twice the signed area of triangle (a, b, c) in grid units
            Area2(a, b, c) ==
                (GX(b) - GX(a)) * (GZ(c) - GZ(a))
                    - (GZ(b) - GZ(a)) * (GX(c) - GX(a))
        IN  \A q \in 0 .. r * r - 1 :
                LET x == q % r
                    z == q \div r
                    i == z * (r + 1) + x
                    t1 == {idx[6 * q + 1], idx[6 * q + 2], idx[6 * q + 3]}
                    t2 == {idx[6 * q + 4], idx[6 * q + 5], idx[6 * q + 6]}
                IN  /\ t1 \cup t2 = {i, i + 1, i + r + 1, i + r + 2}
                    /\ Cardinality(t1 \cap t2) = 2
                    /\ Area2(idx[6 * q + 1], idx[6 * q + 2], idx[6 * q + 3]) = 1
                    /\ Area2(idx[6 * q + 4], idx[6 * q + 5], idx[6 * q + 6]) = 1

\* a mesh of the middle tier: resolution 16, 256 quads, 1536 indices, the
\* last triangle ending on the far corner's neighbours
C22_Witness ==
    /\ last.op = "mesh"
    /\ last.resolution = 16
    /\ Len(last.indices) = 1536
    /\ last.indices[1535] = 288
    /\ last.indices[1536] = 287

\* C23: the pixel index sampled for a world coordinate shifted by a whole
\* number of image sides is the pixel index sampled for the coordinate
\* itself, for negative and non-integer coordinates too.
C23_SeamlessTiling ==
    last.op = "tile" => last.shifted = last.sample

\* C24: for a chunk coordinate of either sign, a chunk size n > 0 and a
\* local offset (x, y) inside the chunk, compute_height at the world
\* position (cx*n + x, cy*n + y) looks up local key (x, y), which lies in
\* [0, n), and reads the colour the biome data stores under it.
C24_LocalKeyLookup ==
    last.op = "key" =>
        /\ last.key = last.local
        /\ 0 <= last.key[1] /\ last.key[1] < last.size
        /\ 0 <= last.key[2] /\ last.key[2] < last.size
        /\ last.color = Color(last.local[1] + 1, last.local[2] + 1, 0, 10)

\* the offset (2, 1) of chunk (-3, 2) with chunk size 3, world position
\* (-7, 7)
C24_Witness ==
    /\ last.op = "key"
    /\ last.size = 3
    /\ last.coord = <<-3, 2>>
    /\ last.local = <<2, 1>>
    /\ last.key = <<2, 1>>
    /\ last.color = Color(3, 2, 0, 10)

\* C25: generate_biome_data returns without a fault; while the BiomeMask is
\* absent or not ready it returns an empty dictionary and queries no
\* service, and when the mask is ready it returns a colour for each of the
\* chunk_size^2 local keys and a weight map for each of them.
C25_BiomeDataGuard ==
    last.op = "biome_data" =>
        /\ ~faulted
        /\ last.returned
        /\ IF maskState = "ready" /\ biome_mask_node # NullNode
           THEN /\ last.ret.hasColors /\ last.ret.hasWeights
                /\ DOMAIN last.ret.colors = LocalKeys(last.size)
                /\ DOMAIN last.ret.weights = LocalKeys(last.size)
           ELSE /\ last.ret = EmptyData
                /\ ~last.queried

\* C26: in every reachable state the blend-texture cache and the
\* heightmap-texture cache hold entries for the same chunk coordinates.
C26_ArtifactPairing ==
    DOMAIN m_biomeBlendTextureCache = DOMAIN m_heightmapTextureCache

\* C27: in a request made with a positive chunk size that rasterises the
\* height map of its coordinate,
\* every mesh vertex at an integer local position (x, z) that is also a
\* pixel of the height map has, divided by the height multiplier, the
\* height stored in pixel (x, z).
C27_MeshMatchesHeightMap ==
    (last.op = "generate" /\ last.completed /\ last.resolution > 0
     /\ ~last.heightHit /\ last.heightRet.valid) =>
        \A j \in 1 .. Len(last.vertices) :
            LET v == last.vertices[j]
                x == v.x[1] \div v.x[2]
                z == v.z[1] \div v.z[2]
            IN  (/\ v.x[1] % v.x[2] = 0 /\ v.z[1] % v.z[2] = 0
                 /\ <<x, z>> \in DOMAIN last.heightRet.px) =>
                    ToByte(v.y \div m_heightMultiplier, 20) =
                        last.heightRet.px[<<x, z>>]

\* C28: two adjacent chunks meshed at the same resolution against the same
\* noise images, each with the biome data generate_biome_data builds for
\* it, give every vertex of their shared edge the same height.
C28_SeamAgreement ==
    (last.op = "seam" /\ last.resolution1 = last.resolution2) =>
        last.edge1 = last.edge2

C30_BoundedBlend ==
    last.op = "height" =>
        LET ix == TruncToInt(last.x[1], last.x[2])
            iy == TruncToInt(last.y[1], last.y[2])
            sx == ClampedSampleIndex(ix, NoiseWidth)
            sy == ClampedSampleIndex(iy, NoiseHeight)
            pair == SectionBiomes(last.color)
            Sample(k) == IF Stored(k) THEN get_pixel_r(StoredImage(k), sx, sy)
                         ELSE 0
            lo == IF Sample(pair[1]) < Sample(pair[2])
                  THEN Sample(pair[1]) ELSE Sample(pair[2])
            hi == IF Sample(pair[1]) < Sample(pair[2])
                  THEN Sample(pair[2]) ELSE Sample(pair[1])
            Pairs == {<<"corral", "sand">>, <<"rock", "kelp">>,
                      <<"rock", "lavarock">>}
        IN  /\ 2 * lo <= last.height /\ last.height <= 2 * hi
            /\ \A b \in 0 .. 10 : 0 <= BlendWeight(b) /\ BlendWeight(b) <= 2
            /\ pair \in Pairs
            /\ \A r \in {0, 3, 7, 8, 10}, g \in {0, 3, 7, 8, 10},
                 b \in {0, 3, 7, 8, 10} :
                   SectionBiomes(Color(r, g, b, 10)) \in Pairs

\* a position of the rock/lavarock section where the blend image holds 0.5:
\* the height 0.75 lies strictly between the lavarock sample 0.5 and the
\* rock sample 1.0
C30_Witness ==
    /\ last.op = "height"
    /\ last.color = Black
    /\ last.x = <<-5, 2>> /\ last.y = <<0, 1>>
    /\ m_blendNoiseImage = BlendKey
    /\ Stored("rock") /\ Stored("lavarock")
    /\ last.height = 15

====
